---- MODULE Spec2Model ----
(***************************************************************************)
(* State-machine model of the timeline markup processor: the off-side      *)
(* tokenizer (osp.py) and the parse / link / check pipeline (tml.py).      *)
(*                                                                         *)
(* A line of text is a sequence of items: SP (one space), TAB (one tab)    *)
(* or a word (a maximal run of non-whitespace characters).  A content      *)
(* token is [k |-> "str", s |-> items]; INDENT and DEDENT are the two      *)
(* sentinel objects.                                                       *)
(***************************************************************************)
EXTENDS Integers, Sequences, FiniteSets, Bags, TLC

\* ------------------------------------------------------------------ bounds
MaxLines == 4
MaxWs == 2

\* -------------------------------------------------------- program constants
DefaultTabs == 4

\* Python's None, for a field that holds a string otherwise
None == "None"
\* tabs=None (`t is None`, line 26): the integer that stands for no tab width
NoTabs == -1

SP == " "
TAB == "\t"
IsWs(c) == c \in {SP, TAB}

INDENT == [k |-> "INDENT"]
DEDENT == [k |-> "DEDENT"]
Str(s) == [k |-> "str", s |-> s]
IsContent(t) == t.k = "str"
HasContent(ts) == \E i \in 1..Len(ts) : IsContent(ts[i])

VARIABLES
    tabs,         \* tokenize: the tabs parameter
    lev_stack,    \* tokenize: lev_stack
    only_tabbed,  \* tokenize: only_tabbed
    tpc,          \* tokenize: "run" (in the for loop), "done", "raised"
    terr,         \* tokenize: the exception raised, or None
    line,         \* the line the loop body last ran on (<<>> before the first)
    lev,          \* tokenize: lev of that line (-1 when none was computed)
    out,          \* the tokens yielded by the last step
    nlines,       \* number of lines read so far
    nIndent,      \* INDENT tokens yielded so far
    nDedent,      \* DEDENT tokens yielded so far
    sawSpace,     \* some line so far had a space in its leading whitespace
    cut,          \* the token iterator ended inside a block (it is not tokenize's)
    ppc,          \* where the consumer of the tokens is: "idle", "top", "hdr",
                  \* "build", "read_block", "scan", "rbdone", "done", "raised"
    perr,         \* the exception that ended the consumer, or None
    hdr,          \* Timeline.from_tokens: parts of the header being dispatched
    cur,          \* the builder's inst and locals
    doc,          \* the Timeline
    rb,           \* read_block: lev, its caller, and what it consumed
    depth,        \* INDENT minus DEDENT tokens consumed so far
    bstart,       \* depth right after the INDENT that opened the builder's block
    ret,          \* the last return of a builder: how it ended and at what depth
    phase,        \* after parsing: "idle", "parsed", "linked", "checking",
                  \* "checked", "raised"
    xerr,         \* the exception link or check ended with, or None
    nlinks,       \* completed calls of Timeline.link
    parsed,       \* the Timeline as parsing left it
    linked1,      \* the Timeline as the first link left it
    todo,         \* check: the constraints the for loop has not reached yet
    good,         \* check: good
    last          \* check: the constraint the loop body last ran on, and how

tokvars == <<tabs, lev_stack, only_tabbed, tpc, terr, line, lev, out,
             nlines, nIndent, nDedent, sawSpace, cut>>
tokrest == <<tabs, lev_stack, only_tabbed, tpc, terr, line, lev,
             nlines, nIndent, nDedent, sawSpace, cut>>
parsevars == <<ppc, perr, hdr, cur, doc, rb, depth, bstart, ret>>
parsevars_but_depth == <<ppc, perr, hdr, cur, doc, rb, bstart, ret>>
postvars == <<phase, xerr, nlinks, parsed, linked1, todo, good, last>>

\* ----------------------------------------------------------- sequence helpers
Last(s) == s[Len(s)]
Front(s) == SubSeq(s, 1, Len(s) - 1)

RECURSIVE Count(_, _)
Count(s, c) == IF s = <<>> THEN 0
               ELSE (IF Head(s) = c THEN 1 ELSE 0) + Count(Tail(s), c)

RECURSIVE Repeat(_, _)
Repeat(x, n) == IF n <= 0 THEN <<>> ELSE <<x>> \o Repeat(x, n - 1)

\* ------------------------------------------------------------------ osp.py
\* LWS.match(line).group(0): the longest prefix of spaces and tabs
RECURSIVE LWSmatch(_)
LWSmatch(l) == IF l # <<>> /\ IsWs(Head(l)) THEN <<Head(l)>> \o LWSmatch(Tail(l))
               ELSE <<>>

\* str.strip() on a text that starts at the first non-whitespace item
RECURSIVE RStrip(_)
RStrip(s) == IF s # <<>> /\ IsWs(Last(s)) THEN RStrip(Front(s)) ELSE s

RECURSIVE LStrip(_)
LStrip(s) == IF s # <<>> /\ IsWs(Head(s)) THEN LStrip(Tail(s)) ELSE s

Strip(s) == LStrip(RStrip(s))

\* line[mt.span()[1]:].strip()
Content(l) == Strip(SubSeq(l, Len(LWSmatch(l)) + 1, Len(l)))

\* LevelOf with only_tabbed recomputed for every line instead of latched
LevelOfNoLatch(l, ot, tb) ==
    LET span == LWSmatch(l) IN
    IF span = <<>> THEN [lev |-> 0, only_tabbed |-> ot, raised |-> FALSE]
    ELSE LET ot2 == (Count(span, SP) = 0)
             t == IF ot2 THEN 1 ELSE tb
         IN  IF Count(span, TAB) > 0 /\ t = NoTabs
             THEN [lev |-> Count(span, SP), only_tabbed |-> ot2, raised |-> TRUE]
             ELSE [lev |-> Count(span, SP)
                           + (IF Count(span, TAB) > 0 THEN Count(span, TAB) * t ELSE 0),
                   only_tabbed |-> ot2, raised |-> FALSE]

\* lines 16-28: the level of a line, the new only_tabbed, and whether line 27
\* raises (tabs is None and a tab has to be measured)
LevelOf(l, ot, tb) ==
    LET span == LWSmatch(l) IN
    IF span = <<>> THEN [lev |-> 0, only_tabbed |-> ot, raised |-> FALSE]
    ELSE LET ot2 == IF Count(span, SP) > 0 THEN FALSE ELSE ot
             t == IF ot2 THEN 1 ELSE tb
         IN  IF Count(span, TAB) > 0 /\ t = NoTabs
             THEN [lev |-> Count(span, SP), only_tabbed |-> ot2, raised |-> TRUE]
             ELSE [lev |-> Count(span, SP)
                           + (IF Count(span, TAB) > 0 THEN Count(span, TAB) * t ELSE 0),
                   only_tabbed |-> ot2, raised |-> FALSE]

\* lines 34-36 with `if` for `while`: at most one level is popped
PopWhileOnce(st, lv) == IF st # <<>> /\ Last(st) > lv THEN Front(st) ELSE st

\* lines 34-36: while lev_stack and lev_stack[-1] > lev: pop, yield DEDENT
RECURSIVE PopWhile(_, _)
PopWhile(st, lv) == IF st # <<>> /\ Last(st) > lv THEN PopWhile(Front(st), lv) ELSE st

\* Offside without the check of line 37
OffsideNoCheck(st, lv, l) ==
    IF lv > Last(st)
    THEN [lev_stack |-> Append(st, lv), out |-> <<INDENT, Str(Content(l))>>, err |-> None]
    ELSE IF lv < Last(st)
    THEN LET st2 == PopWhile(st, lv)
         IN  [lev_stack |-> st2,
              out |-> Repeat(DEDENT, Len(st) - Len(st2)) \o <<Str(Content(l))>>,
              err |-> None]
    ELSE [lev_stack |-> st, out |-> <<Str(Content(l))>>, err |-> None]

\* Offside without the append of line 31: INDENT is yielded, nothing is pushed
OffsideNoPush(st, lv, l) ==
    IF lv > Last(st)
    THEN [lev_stack |-> st, out |-> <<INDENT, Str(Content(l))>>, err |-> None]
    ELSE IF lv < Last(st)
    THEN LET st2 == PopWhile(st, lv)
             deds == Repeat(DEDENT, Len(st) - Len(st2))
         IN  IF st2 = <<>>
             THEN [lev_stack |-> st2, out |-> deds, err |-> "IndexError"]
             ELSE IF Last(st2) < lv
             THEN [lev_stack |-> st2, out |-> deds, err |-> "ValueError"]
             ELSE [lev_stack |-> st2, out |-> deds \o <<Str(Content(l))>>, err |-> None]
    ELSE [lev_stack |-> st, out |-> <<Str(Content(l))>>, err |-> None]

\* lines 30-40: the stack, the tokens yielded and the exception of one loop body
Offside(st, lv, l) ==
    IF lv > Last(st)
    THEN [lev_stack |-> Append(st, lv), out |-> <<INDENT, Str(Content(l))>>, err |-> None]
    ELSE IF lv < Last(st)
    THEN LET st2 == PopWhile(st, lv)
             deds == Repeat(DEDENT, Len(st) - Len(st2))
         IN  IF st2 = <<>>
             THEN [lev_stack |-> st2, out |-> deds, err |-> "IndexError"]
             ELSE IF Last(st2) < lv
             THEN [lev_stack |-> st2, out |-> deds, err |-> "ValueError"]
             ELSE [lev_stack |-> st2, out |-> deds \o <<Str(Content(l))>>, err |-> None]
    ELSE [lev_stack |-> st, out |-> <<Str(Content(l))>>, err |-> None]

\* the whole loop body (lines 14-40) on one line
TokLine(st, ot, tb, l) ==
    LET lv == LevelOf(l, ot, tb) IN
    IF lv.raised
    THEN [lev_stack |-> st, only_tabbed |-> lv.only_tabbed, lev |-> -1,
          out |-> <<>>, err |-> "ValueError"]
    ELSE LET o == Offside(st, lv.lev, l) IN
         [lev_stack |-> o.lev_stack, only_tabbed |-> lv.only_tabbed, lev |-> lv.lev,
          out |-> o.out, err |-> o.err]

\* TokEnd with `if` for `while`: a single level is closed
TokEndOnce(st) ==
    IF Len(st) > 1 THEN [lev_stack |-> Front(st), out |-> <<DEDENT>>]
    ELSE [lev_stack |-> st, out |-> <<>>]

\* lines 42-44: while len(lev_stack) > 1: pop, yield DEDENT
RECURSIVE PopToBase(_)
PopToBase(st) == IF Len(st) > 1 THEN PopToBase(Front(st)) ELSE st

TokEnd(st) ==
    LET st2 == PopToBase(st) IN
    [lev_stack |-> st2, out |-> Repeat(DEDENT, Len(st) - Len(st2))]

\* ------------------------------------------------------------------ tml.py
\* An optional value (None or x) is <<>> or <<x>>.
NoneV == <<>>
Some(x) == <<x>>
IsNone(o) == o = <<>>
Val(o) == o[1]

\* t.split(): the words of a content token
Split(s) == SelectSeq(s, LAMBDA c : ~IsWs(c))
\* parts[1:]
Rest(parts) == SubSeq(parts, 2, Len(parts))

\* ' '.join(ws)
RECURSIVE Join(_)
Join(ws) == IF ws = <<>> THEN ""
            ELSE IF Len(ws) = 1 THEN ws[1]
            ELSE ws[1] \o " " \o Join(Tail(ws))

\* the numerals float() and int() read in this model
NumVal == [w \in {"-1", "0", "1", "3", "5", "7", "10", "20", "50", "60"} |->
             CASE w = "-1" -> -1 [] w = "0" -> 0 [] w = "1" -> 1 [] w = "3" -> 3
               [] w = "5" -> 5 [] w = "7" -> 7 [] w = "10" -> 10 [] w = "20" -> 20
               [] w = "50" -> 50 [] w = "60" -> 60]

\* float(parts[1]): IndexError without an argument, ValueError when it is no number
FloatArg(parts) ==
    IF Len(parts) < 2 THEN [err |-> "IndexError", v |-> 0]
    ELSE IF parts[2] \notin DOMAIN NumVal THEN [err |-> "ValueError", v |-> 0]
    ELSE [err |-> None, v |-> NumVal[parts[2]]]

\* Span(start, sword, end, eword); start, end and eword are optional values
Span(start, sword, end, eword) ==
    [start |-> start, sword |-> sword, end |-> end, eword |-> eword]

\* list.sort(key=lambda sp: sp.start): a stable insertion sort
RECURSIVE InsertByStart(_, _)
InsertByStart(sorted, sp) ==
    IF sorted = <<>> THEN <<sp>>
    ELSE IF Val(Last(sorted).start) <= Val(sp.start) THEN Append(sorted, sp)
    ELSE Append(InsertByStart(Front(sorted), sp), Last(sorted))

\* the spans left in the order of their end directives
KeepSpans(sps) == sps

RECURSIVE SortSpans(_)
SortSpans(sps) == IF sps = <<>> THEN <<>>
                  ELSE InsertByStart(SortSpans(Front(sps)), Last(sps))

SeqToSet(s) == {s[i] : i \in 1..Len(s)}

\* A member of parents / from_rg / with_rg is a name (a str) before linking
\* and a Range object afterwards; the object is identified by its key in
\* Timeline.ranges.
StrRef(w) == [t |-> "str", v |-> w]
ObjRef(name) == [t |-> "obj", v |-> name]
StrRefs(ws) == {StrRef(ws[i]) : i \in 1..Len(ws)}

\* Character.BEGIN_WORDS, Character.END_WORDS (the only Range class the
\* dispatcher builds is Character)
BEGIN_WORDS == {"begin", "born", "raised"}
END_WORDS == {"end", "died", "living"}

\* handlers of Timeline.from_tokens
Handlers == {"char", "event", "constraint", "sequence", "group"}

\* cls(nm) / cls(): the instance a builder starts from
NewInst(kind, h) ==
    CASE kind = "char" ->
           [kind |-> "char", name |-> Join(Rest(h)), dispname |-> NoneV, classes |-> {},
            spans |-> <<>>, ambient |-> FALSE, gender |-> NoneV, parents |-> {},
            cur_span |-> NoneV]
      [] kind = "event" ->
           [kind |-> "event", name |-> IF Len(h) > 1 THEN Some(Join(Rest(h))) ELSE NoneV,
            desc |-> NoneV, time |-> NoneV, from_rg |-> {}, with_rg |-> {}, classes |-> {},
            idx |-> NoneV]
      [] kind = "constraint" ->
           [kind |-> "constraint", name |-> IF Len(h) > 1 THEN Some(Join(Rest(h))) ELSE NoneV,
            before |-> NoneV, after |-> NoneV, offset |-> 0, strict |-> FALSE]
      [] kind = "group" ->
           [kind |-> "group", name |-> IF Len(h) > 1 THEN Some(Join(Rest(h))) ELSE NoneV,
            evs |-> {}]
      [] kind = "sequence" ->
           [kind |-> "sequence", nm |-> IF Len(h) > 1 THEN Some(Join(Rest(h))) ELSE NoneV,
            cons |-> <<>>, idx |-> 0, lastev |-> NoneV]

\* Constraint(name, before, after): offset 0, strict False
NewConstraint(name, before, after) ==
    [kind |-> "constraint", name |-> name, before |-> Some(before), after |-> Some(after),
     offset |-> 0, strict |-> FALSE]

Ok(inst) == [inst |-> inst, err |-> None]
Raise(inst, e) == [inst |-> inst, err |-> e]

\* Range.from_tokens lines 251-273 with Character.unhandled_directive
CharDirective(inst, parts) ==
    LET cmd == parts[1] IN
    IF cmd \in BEGIN_WORDS THEN
        LET f == FloatArg(parts) IN
        IF f.err # None THEN Raise(inst, f.err)
        ELSE Ok([inst EXCEPT !.cur_span = Some(Span(Some(f.v), cmd, NoneV, NoneV))])
    ELSE IF cmd \in END_WORDS THEN
        IF IsNone(inst.cur_span) THEN Ok(inst)
        ELSE LET f == FloatArg(parts) IN
             IF f.err # None THEN Raise(inst, f.err)
             ELSE Ok([inst EXCEPT
                        !.spans = Append(@, [Val(inst.cur_span) EXCEPT
                                               !.eword = Some(cmd), !.end = Some(f.v)]),
                        !.cur_span = NoneV])
    ELSE IF cmd = "class" THEN Ok([inst EXCEPT !.classes = @ \cup SeqToSet(Rest(parts))])
    ELSE IF cmd = "name" THEN Ok([inst EXCEPT !.dispname = Some(Join(Rest(parts)))])
    ELSE IF cmd = "ambient" THEN Ok([inst EXCEPT !.ambient = TRUE])
    ELSE IF cmd = "gender" THEN
        IF Len(parts) < 2 THEN Raise(inst, "IndexError")
        ELSE Ok([inst EXCEPT !.gender = Some(parts[2])])
    ELSE IF cmd = "parent" THEN Ok([inst EXCEPT !.parents = @ \cup StrRefs(Rest(parts))])
    ELSE Ok(inst)

\* Event.from_tokens lines 358-374
EventDirective(inst, parts) ==
    LET cmd == parts[1] IN
    IF cmd = "at" THEN
        LET f == FloatArg(parts) IN
        IF f.err # None THEN Raise(inst, f.err) ELSE Ok([inst EXCEPT !.time = Some(f.v)])
    ELSE IF cmd = "desc" THEN Ok([inst EXCEPT !.desc = Some(Join(Rest(parts)))])
    ELSE IF cmd = "from" THEN Ok([inst EXCEPT !.from_rg = @ \cup StrRefs(Rest(parts))])
    ELSE IF cmd = "with" THEN Ok([inst EXCEPT !.with_rg = @ \cup StrRefs(Rest(parts))])
    ELSE IF cmd = "class" THEN Ok([inst EXCEPT !.classes = @ \cup SeqToSet(Rest(parts))])
    ELSE Ok(inst)

\* Constraint.from_tokens lines 512-523
ConstraintDirective(inst, parts) ==
    LET cmd == parts[1] IN
    IF cmd = "before" THEN Ok([inst EXCEPT !.before = Some(Rest(parts))])
    ELSE IF cmd = "after" THEN Ok([inst EXCEPT !.after = Some(Rest(parts))])
    ELSE IF cmd = "offset" THEN
        LET f == FloatArg(parts) IN
        IF f.err # None THEN Raise(inst, f.err) ELSE Ok([inst EXCEPT !.offset = f.v])
    ELSE IF cmd = "strict" THEN Ok([inst EXCEPT !.strict = TRUE])
    ELSE Ok(inst)

\* Group.from_tokens lines 587-592
GroupDirective(inst, parts) ==
    IF parts[1] = "event" THEN Ok([inst EXCEPT !.evs = @ \cup {Rest(parts)}])
    ELSE Ok(inst)

\* f'{nm}_{idx}': the name of the idx-th constraint of a sequence
SeqName(nm, idx) == (IF IsNone(nm) THEN "None" ELSE Val(nm)) \o "_" \o ToString(idx)

\* a sequence builder that pairs the selectors two by two instead of chaining
SequencePairs(inst, parts) ==
    IF parts[1] = "event" THEN
        LET ev == Rest(parts) IN
        IF ~IsNone(inst.lastev)
        THEN Ok([inst EXCEPT
                   !.cons = Append(@, NewConstraint(Some(SeqName(inst.nm, inst.idx)),
                                                    Val(inst.lastev), ev)),
                   !.idx = @ + 1,
                   !.lastev = NoneV])
        ELSE Ok([inst EXCEPT !.lastev = Some(ev)])
    ELSE Ok(inst)

\* Sequence.from_tokens lines 641-650
SequenceDirective(inst, parts) ==
    IF parts[1] = "event" THEN
        LET ev == Rest(parts) IN
        IF ~IsNone(inst.lastev)
        THEN Ok([inst EXCEPT
                   !.cons = Append(@, NewConstraint(Some(SeqName(inst.nm, inst.idx)),
                                                    Val(inst.lastev), ev)),
                   !.idx = @ + 1,
                   !.lastev = Some(ev)])
        ELSE Ok([inst EXCEPT !.lastev = Some(ev)])
    ELSE Ok(inst)

\* one content token with words, in the builder of inst.kind
Directive(inst, parts) ==
    CASE inst.kind = "char" -> CharDirective(inst, parts)
      [] inst.kind = "event" -> EventDirective(inst, parts)
      [] inst.kind = "constraint" -> ConstraintDirective(inst, parts)
      [] inst.kind = "group" -> GroupDirective(inst, parts)
      [] inst.kind = "sequence" -> SequenceDirective(inst, parts)

\* a builder that returns the pending begin as one more span
ResultWithPending(inst) ==
    CASE inst.kind = "char" ->
           [kind |-> "char", name |-> inst.name, dispname |-> inst.dispname,
            classes |-> inst.classes,
            spans |-> SortSpans(inst.spans \o (IF IsNone(inst.cur_span) THEN <<>>
                                               ELSE <<Val(inst.cur_span)>>)),
            ambient |-> inst.ambient, gender |-> inst.gender, parents |-> inst.parents,
            idx |-> NoneV, hanging_events |-> <<>>]
      [] inst.kind = "sequence" -> [kind |-> "list", items |-> inst.cons]
      [] OTHER -> inst

\* what a builder returns (at DEDENT and at the end of the stream alike):
\* Range.from_tokens sorts the spans, Sequence.from_tokens returns cons
Result(inst) ==
    CASE inst.kind = "char" ->
           [kind |-> "char", name |-> inst.name, dispname |-> inst.dispname,
            classes |-> inst.classes, spans |-> SortSpans(inst.spans),
            ambient |-> inst.ambient, gender |-> inst.gender, parents |-> inst.parents,
            idx |-> NoneV, hanging_events |-> <<>>]
      [] inst.kind = "sequence" -> [kind |-> "list", items |-> inst.cons]
      [] OTHER -> inst

\* ------------------------------------------------------------- the inputs
RECURSIVE SeqsUpTo(_, _)
SeqsUpTo(S, n) == IF n = 0 THEN {<<>>}
                  ELSE LET R == SeqsUpTo(S, n - 1)
                       IN  R \cup {Append(r, x) : r \in {q \in R : Len(q) = n - 1}, x \in S}

WsRuns == SeqsUpTo({SP, TAB}, MaxWs)
TokTexts == {<<>>, <<"A">>, <<"A", SP>>, <<"A", TAB, "B">>}
TokLines == {w \o t : w \in WsRuns, t \in TokTexts}
TabChoices == {2, DefaultTabs, NoTabs}

\* ------------------------------------------------------ tokenizer, stepwise
TokInit ==
    /\ tabs \in TabChoices
    /\ lev_stack = <<0>>
    /\ only_tabbed = TRUE
    /\ tpc = "run"
    /\ terr = None
    /\ line = <<>>
    /\ lev = -1
    /\ out = <<>>
    /\ nlines = 0
    /\ nIndent = 0
    /\ nDedent = 0
    /\ sawSpace = FALSE
    /\ cut = FALSE

\* the token iterator after parsing: exhausted
TokOff ==
    /\ tabs = DefaultTabs
    /\ lev_stack = <<0>>
    /\ only_tabbed = TRUE
    /\ tpc = "done"
    /\ terr = None
    /\ line = <<>>
    /\ lev = -1
    /\ out = <<>>
    /\ nlines = 0
    /\ nIndent = 0
    /\ nDedent = 0
    /\ sawSpace = FALSE
    /\ cut = FALSE

\* one iteration of `for line in lines`
TokStep(l) ==
    /\ tpc = "run"
    /\ LET r == TokLine(lev_stack, only_tabbed, tabs, l) IN
       /\ lev_stack' = r.lev_stack
       /\ only_tabbed' = r.only_tabbed
       /\ lev' = r.lev
       /\ out' = r.out
       /\ terr' = r.err
       /\ tpc' = IF r.err = None THEN "run" ELSE "raised"
       /\ nIndent' = nIndent + Count(r.out, INDENT)
       /\ nDedent' = nDedent + Count(r.out, DEDENT)
    /\ line' = l
    /\ nlines' = nlines + 1
    /\ sawSpace' = (sawSpace \/ Count(LWSmatch(l), SP) > 0)
    /\ UNCHANGED <<tabs, cut>>

\* the lines are exhausted: the loop ends and the stack is unwound
TokFinish ==
    /\ tpc = "run"
    /\ LET r == TokEnd(lev_stack) IN
       /\ lev_stack' = r.lev_stack
       /\ out' = r.out
       /\ nDedent' = nDedent + Len(r.out)
    /\ tpc' = "done"
    /\ UNCHANGED <<tabs, only_tabbed, terr, line, lev, nlines, nIndent, sawSpace, cut>>

\* a token iterator that is not tokenize's may end inside a block
TokCut ==
    /\ tpc = "run"
    /\ Len(lev_stack) > 1
    /\ tpc' = "done"
    /\ cut' = TRUE
    /\ out' = <<>>
    /\ UNCHANGED <<tabs, lev_stack, only_tabbed, terr, line, lev, nlines, nIndent,
                   nDedent, sawSpace>>

vars == <<tokvars, parsevars, postvars>>

\* ------------------------------------------------------------ the Timeline
\* Timeline.__init__
NewTimeline ==
    [ranges |-> <<>>, events |-> <<>>, constraints |-> EmptyBag, groups |-> <<>>,
     universal_evs |-> NoneV]

\* a mapping that keeps the earlier entry of a name beside the later one
DictPutAppend(d, obj) == Append(d, obj)

\* d[obj.name] = obj on an insertion-ordered dict: an existing key keeps its place
DictPut(d, obj) ==
    IF \E i \in 1..Len(d) : d[i].name = obj.name
    THEN [i \in 1..Len(d) |-> IF d[i].name = obj.name THEN obj ELSE d[i]]
    ELSE Append(d, obj)

\* Timeline.add for one object that is no list
AddOne(tml, obj) ==
    CASE obj.kind = "char" -> [tml EXCEPT !.ranges = DictPut(@, obj)]
      [] obj.kind = "event" -> [tml EXCEPT !.events = Append(@, obj)]
      [] obj.kind = "constraint" -> [tml EXCEPT !.constraints = @ (+) SetToBag({obj})]
      [] obj.kind = "group" -> [tml EXCEPT !.groups = DictPut(@, obj)]

RECURSIVE AddAll(_, _)
AddAll(tml, objs) == IF objs = <<>> THEN tml
                     ELSE AddAll(AddOne(tml, Head(objs)), Tail(objs))

\* Timeline.add
Add(tml, obj) == IF obj.kind = "list" THEN AddAll(tml, obj.items) ELSE AddOne(tml, obj)

\* ------------------------------------------------------------ Timeline.link
SetMin(S) == CHOOSE x \in S : \A y \in S : x <= y
SetMax(S) == CHOOSE x \in S : \A y \in S : x >= y

RangeNames(tml) == {tml.ranges[i].name : i \in 1..Len(tml.ranges)}
RangeAt(tml, nm) == CHOOSE i \in 1..Len(tml.ranges) : tml.ranges[i].name = nm

\* Timeline.time_bounds: min() and max() of the span bounds and event times;
\* ValueError on an empty set, TypeError when None meets a number
TimeBounds(tml) ==
    LET spans == UNION {SeqToSet(tml.ranges[i].spans) : i \in 1..Len(tml.ranges)}
        tms == {sp.start : sp \in spans} \cup {sp.end : sp \in spans}
               \cup {tml.events[i].time : i \in 1..Len(tml.events)}
        nums == {Val(o) : o \in {x \in tms : ~IsNone(x)}}
    IN  IF tms = {} THEN [err |-> "ValueError", mn |-> NoneV, mx |-> NoneV]
        ELSE IF NoneV \in tms /\ nums # {} THEN [err |-> "TypeError", mn |-> NoneV, mx |-> NoneV]
        ELSE IF nums = {} THEN [err |-> None, mn |-> NoneV, mx |-> NoneV]
        ELSE [err |-> None, mn |-> Some(SetMin(nums)), mx |-> Some(SetMax(nums))]

\* the names of a reference set that are keys of Timeline.ranges, as objects;
\* `nm in tml.ranges` is false for whatever is not a str key
Resolve(refs, tml) ==
    {ObjRef(r.v) : r \in {x \in refs : x.t = "str" /\ x.v \in RangeNames(tml)}}

\* Range.link followed by the rest of Character.link
CharacterLink(rg, tml) ==
    LET tb == TimeBounds(tml)
    IN  IF rg.ambient /\ tb.err # None THEN Raise(rg, tb.err)
        ELSE Ok([rg EXCEPT
                   !.spans = IF rg.ambient
                             THEN <<Span(tb.mn, "begin", tb.mx, Some("end"))>> ELSE @,
                   !.parents = Resolve(@, tml)])

\* link lines 141-143 from the i-th range on
RECURSIVE LinkRanges(_, _)
LinkRanges(tml, i) ==
    IF i > Len(tml.ranges) THEN Ok(tml)
    ELSE LET r == CharacterLink(tml.ranges[i], tml)
         IN  IF r.err # None THEN Raise(tml, r.err)
             ELSE LinkRanges([tml EXCEPT !.ranges[i] = [r.inst EXCEPT !.idx = Some(i - 1)]],
                             i + 1)

\* a sort that puts an event before the earlier events of the same time
RECURSIVE InsertBeforeEqual(_, _)
InsertBeforeEqual(sorted, ev) ==
    IF sorted = <<>> THEN <<ev>>
    ELSE IF Val(Last(sorted).time) < Val(ev.time) THEN Append(sorted, ev)
    ELSE Append(InsertBeforeEqual(Front(sorted), ev), Last(sorted))

\* sorted(evs, key=lambda ev: ev.time): a stable insertion sort
RECURSIVE InsertByTime(_, _)
InsertByTime(sorted, ev) ==
    IF sorted = <<>> THEN <<ev>>
    ELSE IF Val(Last(sorted).time) <= Val(ev.time) THEN Append(sorted, ev)
    ELSE Append(InsertByTime(Front(sorted), ev), Last(sorted))

RECURSIVE SortEvents(_)
SortEvents(evs) == IF evs = <<>> THEN <<>>
                   ELSE InsertByTime(SortEvents(Front(evs)), Last(evs))

\* Event.is_valid
EventIsValid(ev) == ~IsNone(ev.time)
\* Event.is_universal
IsUniversal(ev) == ev.from_rg = {} /\ ev.with_rg = {}

\* sorted(self.with_rg, key=lambda rg: rg.idx)[-1]: the position of that range
LastByIdx(refs, tml) ==
    LET at == {RangeAt(tml, r.v) : r \in refs}
    IN  CHOOSE i \in at : \A j \in at : Val(tml.ranges[j].idx) <= Val(tml.ranges[i].idx)

\* link lines 148-149 from the i-th event on: Event.link on each
RECURSIVE LinkEvents(_, _)
LinkEvents(tml, i) ==
    IF i > Len(tml.events) THEN tml
    ELSE LET ev == [tml.events[i] EXCEPT !.from_rg = Resolve(@, tml),
                                         !.with_rg = Resolve(@, tml)]
             t1 == [tml EXCEPT !.events[i] = ev]
             t2 == IF ev.with_rg = {} THEN t1
                   ELSE [t1 EXCEPT !.ranges[LastByIdx(ev.with_rg, t1)].hanging_events =
                                       Append(@, i)]
         IN  LinkEvents(t2, i + 1)

\* link lines 150-155: universal events are numbered from the latest one
RECURSIVE NumberUniversal(_, _, _)
NumberUniversal(evs, i, idx) ==
    IF i < 1 THEN [events |-> evs, n |-> idx]
    ELSE IF IsUniversal(evs[i])
    THEN NumberUniversal([evs EXCEPT ![i].idx = Some(idx)], i - 1, idx + 1)
    ELSE NumberUniversal(evs, i - 1, idx)

\* link line 159 without line 160: only the first of the two constraints
BornAfterOnly(rg, par) ==
    SetToBag({NewConstraint(Some(rg \o "_born_after_" \o par), <<par>>, <<rg>>)})

\* the two constraints of link lines 159-160 for range rg and parent par
BornConstraints(rg, par) ==
    SetToBag({NewConstraint(Some(rg \o "_born_after_" \o par), <<par>>, <<rg>>)})
    (+) SetToBag({NewConstraint(Some(rg \o "_born_predeath_" \o par), <<rg>>,
                                <<par, "-1", "end">>)})

RECURSIVE BagSum(_)
BagSum(bs) == IF bs = <<>> THEN EmptyBag ELSE Head(bs) (+) BagSum(Tail(bs))

SetToSeq(S) == CHOOSE f \in [1..Cardinality(S) -> S] : \A x \in S : \E i \in DOMAIN f : f[i] = x

\* link lines 156-160
Synthesized(tml) ==
    LET pairs == UNION {{<<tml.ranges[i].name, p.v>> : p \in tml.ranges[i].parents} :
                          i \in 1..Len(tml.ranges)}
        ps == SetToSeq(pairs)
    IN  BagSum([k \in 1..Len(ps) |-> BornConstraints(ps[k][1], ps[k][2])])

\* Timeline.link
Link(tml) ==
    LET r == LinkRanges(tml, 1)
    IN  IF r.err # None THEN r
        ELSE LET t1 == r.inst
                 t2 == [t1 EXCEPT !.events = SortEvents(SelectSeq(@, EventIsValid))]
                 t3 == LinkEvents(t2, 1)
                 nu == NumberUniversal(t3.events, Len(t3.events), 0)
             IN  Ok([t3 EXCEPT !.events = nu.events,
                               !.universal_evs = Some(nu.n),
                               !.constraints = @ (+) Synthesized(t3)])

\* ------------------------------------------------- Constraint.select / verify
NoResult == [k |-> "none", times |-> {}, err |-> None]
GroupResult(times) == [k |-> "res", times |-> times, err |-> None]
SelectError(e) == [k |-> "err", times |-> {}, err |-> e]

\* a lookup that finds no group
NoGroupsNamed(tml, w) == {}

\* dict.get(key) on groups and ranges; the first event with that name
GroupsNamed(tml, w) == {i \in 1..Len(tml.groups) : tml.groups[i].name = Some(w)}
RangesNamed(tml, w) == {i \in 1..Len(tml.ranges) : tml.ranges[i].name = w}
EventsNamed(tml, w) == {i \in 1..Len(tml.events) : tml.events[i].name = Some(w)}

\* select on range rg that takes the first span whatever the index
SelectRangeFirstSpan(sel, rg) ==
    LET prop == IF Len(sel) > 1 THEN Last(sel) ELSE "start"
    IN  IF rg.spans = <<>> THEN SelectError("IndexError")
        ELSE IF prop = "start" THEN GroupResult({rg.spans[1].start})
        ELSE IF prop = "end" THEN GroupResult({rg.spans[1].end})
        ELSE SelectError("AttributeError")

\* select lines 532-540 on range rg: int(sel[1]), rg.spans[idx], getattr(span, prop)
SelectRange(sel, rg) ==
    LET prop == IF Len(sel) > 1 THEN Last(sel) ELSE "start"
        n == Len(rg.spans)
    IN  IF Len(sel) > 2 /\ sel[2] \notin DOMAIN NumVal THEN SelectError("ValueError")
        ELSE LET idx == IF Len(sel) > 2 THEN NumVal[sel[2]] ELSE 0
             IN  IF ~(-n <= idx /\ idx < n) THEN SelectError("IndexError")
                 ELSE LET sp == rg.spans[IF idx < 0 THEN n + idx + 1 ELSE idx + 1]
                      IN  IF prop = "start" THEN GroupResult({sp.start})
                          ELSE IF prop = "end" THEN GroupResult({sp.end})
                          ELSE SelectError("AttributeError")

\* Constraint.select with an into_result that keeps the times of one member
RECURSIVE SelectOneMember(_, _, _)
SelectOneMember(sel, tml, fuel) ==
    IF fuel = 0 THEN SelectError("RecursionError")
    ELSE IF sel = <<>> THEN SelectError("IndexError")
    ELSE IF GroupsNamed(tml, sel[1]) # {} THEN
        LET grp == tml.groups[CHOOSE i \in GroupsNamed(tml, sel[1]) : TRUE]
            rs == {SelectOneMember(ev, tml, fuel - 1) : ev \in grp.evs}
            errs == {r \in rs : r.k = "err"}
            oks == {x \in rs : x.k = "res"}
        IN  IF errs # {} THEN CHOOSE r \in errs : TRUE
            ELSE IF oks = {} THEN GroupResult({})
            ELSE GroupResult((CHOOSE r \in oks : TRUE).times)
    ELSE IF RangesNamed(tml, sel[1]) # {} THEN
        SelectRange(sel, tml.ranges[CHOOSE i \in RangesNamed(tml, sel[1]) : TRUE])
    ELSE IF EventsNamed(tml, sel[1]) # {} THEN
        GroupResult({tml.events[SetMin(EventsNamed(tml, sel[1]))].time})
    ELSE NoResult

\* Constraint.select, with Group.into_result inlined; fuel stands for the
\* interpreter's recursion limit (a group that contains itself ends in
\* RecursionError)
RECURSIVE Select(_, _, _)
Select(sel, tml, fuel) ==
    IF fuel = 0 THEN SelectError("RecursionError")
    ELSE IF sel = <<>> THEN SelectError("IndexError")
    ELSE IF GroupsNamed(tml, sel[1]) # {} THEN
        LET grp == tml.groups[CHOOSE i \in GroupsNamed(tml, sel[1]) : TRUE]
            rs == {Select(ev, tml, fuel - 1) : ev \in grp.evs}
            errs == {r \in rs : r.k = "err"}
        IN  IF errs # {} THEN CHOOSE r \in errs : TRUE
            ELSE GroupResult(UNION {r.times : r \in {x \in rs : x.k = "res"}})
    ELSE IF RangesNamed(tml, sel[1]) # {} THEN
        SelectRange(sel, tml.ranges[CHOOSE i \in RangesNamed(tml, sel[1]) : TRUE])
    ELSE IF EventsNamed(tml, sel[1]) # {} THEN
        GroupResult({tml.events[SetMin(EventsNamed(tml, sel[1]))].time})
    ELSE NoResult

\* the depth at which nested groups stop
SelectFuel(tml) == Len(tml.groups) + 1

\* GroupResult.min / GroupResult.max: ValueError on an empty set, TypeError on None
Extreme(times, mx) ==
    IF times = {} THEN [err |-> "ValueError", v |-> 0]
    ELSE IF NoneV \in times THEN [err |-> "TypeError", v |-> 0]
    ELSE [err |-> None,
          v |-> IF mx THEN SetMax({Val(t) : t \in times}) ELSE SetMin({Val(t) : t \in times})]

Verdict(r, e) == [result |-> r, err |-> e]

\* Constraint.verify with <= in both branches
VerifyNeverStrict(con, tml) ==
    LET bft == Select(Val(con.before), tml, SelectFuel(tml))
        aft == Select(Val(con.after), tml, SelectFuel(tml))
    IN  IF bft.k = "err" THEN Verdict(FALSE, bft.err)
        ELSE IF aft.k = "err" THEN Verdict(FALSE, aft.err)
        ELSE IF bft.k = "none" \/ aft.k = "none" THEN Verdict(FALSE, None)
        ELSE LET b == Extreme(bft.times, TRUE)
                 a == Extreme(aft.times, FALSE)
             IN  IF b.err # None THEN Verdict(FALSE, b.err)
                 ELSE IF a.err # None THEN Verdict(FALSE, a.err)
                 ELSE Verdict(b.v <= a.v + con.offset, None)

\* Constraint.verify
Verify(con, tml) ==
    LET bft == Select(Val(con.before), tml, SelectFuel(tml))
        aft == Select(Val(con.after), tml, SelectFuel(tml))
    IN  IF bft.k = "err" THEN Verdict(FALSE, bft.err)
        ELSE IF aft.k = "err" THEN Verdict(FALSE, aft.err)
        ELSE IF bft.k = "none" \/ aft.k = "none" THEN Verdict(FALSE, None)
        ELSE LET b == Extreme(bft.times, TRUE)
                 a == Extreme(aft.times, FALSE)
             IN  IF b.err # None THEN Verdict(FALSE, b.err)
                 ELSE IF a.err # None THEN Verdict(FALSE, a.err)
                 ELSE IF con.strict THEN Verdict(b.v < a.v + con.offset, None)
                 ELSE Verdict(b.v <= a.v + con.offset, None)

\* Constraint.is_valid
ConstraintIsValid(con) == ~IsNone(con.before) /\ ~IsNone(con.after)

\* ---------------------------------------------------- consumers of tokens
NoInst == [kind |-> "none"]
NoRet == [how |-> "none", start |-> 0, end |-> 0, kind |-> "none"]
NoRb == [lev |-> 0, caller |-> "none", mode |-> "none", target |-> 0, n |-> 0,
         cb |-> FALSE, cbn |-> 0, how |-> "none", closedAt |-> 0]

ParseIdle ==
    /\ ppc = "idle"
    /\ perr = None
    /\ hdr = <<>>
    /\ cur = NoInst
    /\ doc = NewTimeline
    /\ rb = NoRb
    /\ depth = 0
    /\ bstart = 0
    /\ ret = NoRet

NoLast == [con |-> NoInst, valid |-> FALSE, result |-> FALSE, err |-> None]

PostIdle ==
    /\ phase = "idle"
    /\ xerr = None
    /\ nlinks = 0
    /\ parsed = NewTimeline
    /\ linked1 = NewTimeline
    /\ todo = EmptyBag
    /\ good = TRUE
    /\ last = NoLast

Running == ppc \notin {"idle", "done", "raised", "rbdone"}

\* next(tok) yields the token t
Take(t) ==
    /\ out # <<>>
    /\ t = Head(out)
    /\ out' = Tail(out)
    /\ depth' = depth + (IF t = INDENT THEN 1 ELSE IF t = DEDENT THEN -1 ELSE 0)
    /\ UNCHANGED tokrest

\* next(tok) finds the iterator exhausted
Exhausted == out = <<>> /\ tpc = "done"

\* read_block(tok, callback) is entered; target is the depth the DEDENT that
\* closes the block leaves
EnterReadBlock(caller, mode, cb, target) ==
    [lev |-> 0, caller |-> caller, mode |-> mode, target |-> target, n |-> 0,
     cb |-> cb, cbn |-> 0, how |-> "running", closedAt |-> 0]

\* Timeline.from_tokens lines 116-135: one token at the top level
TopToken ==
    /\ UNCHANGED postvars
    /\ ppc = "top"
    /\ out # <<>>
    /\ LET t == Head(out)
           parts == IF IsContent(t) THEN Split(t.s) ELSE <<>>
       IN  /\ Take(t)
           /\ IF ~IsContent(t) \/ t.s = <<>>
              THEN UNCHANGED <<ppc, hdr, rb>>
              ELSE IF parts[1] = "comment" \/ parts[1] \notin Handlers
              THEN /\ ppc' = "read_block"
                   /\ rb' = EnterReadBlock("top", "call", FALSE, depth)
                   /\ UNCHANGED hdr
              ELSE /\ ppc' = "hdr"
                   /\ hdr' = parts
                   /\ UNCHANGED rb
    /\ UNCHANGED <<perr, cur, doc, bstart, ret>>

\* line 116: the for loop finds the iterator exhausted; line 138 returns inst
TopEOF ==
    /\ UNCHANGED postvars
    /\ ppc = "top"
    /\ Exhausted
    /\ ppc' = "done"
    /\ UNCHANGED <<tokvars, perr, hdr, cur, doc, rb, depth, bstart, ret>>

\* lines 133-136: next(tok) after a recognized header yields a token
HdrNext ==
    /\ UNCHANGED postvars
    /\ ppc = "hdr"
    /\ out # <<>>
    /\ LET t == Head(out)
       IN  /\ Take(t)
           /\ IF t = INDENT
              THEN /\ ppc' = "build"
                   /\ cur' = NewInst(hdr[1], hdr)
                   /\ bstart' = depth'
              ELSE /\ ppc' = "top"
                   /\ UNCHANGED <<cur, bstart>>
    /\ UNCHANGED <<perr, hdr, doc, rb, ret>>

\* line 133: next(tok) on the exhausted iterator raises StopIteration
HdrEOF ==
    /\ UNCHANGED postvars
    /\ ppc = "hdr"
    /\ Exhausted
    /\ ppc' = "raised"
    /\ perr' = "StopIteration"
    /\ UNCHANGED <<tokvars, hdr, cur, doc, rb, depth, bstart, ret>>

\* one iteration of a builder's `for t in tok`, and Timeline.add (line 137)
\* when it returns
BuildToken ==
    /\ UNCHANGED postvars
    /\ ppc = "build"
    /\ out # <<>>
    /\ LET t == Head(out)
       IN  /\ Take(t)
           /\ IF t = INDENT THEN UNCHANGED <<ppc, perr, cur, doc, ret>>
              ELSE IF t = DEDENT
              THEN /\ doc' = Add(doc, Result(cur))
                   /\ ppc' = "top"
                   /\ cur' = NoInst
                   /\ ret' = [how |-> "DEDENT", start |-> bstart, end |-> depth',
                              kind |-> cur.kind]
                   /\ UNCHANGED perr
              ELSE IF t.s = <<>> THEN UNCHANGED <<ppc, perr, cur, doc, ret>>
              ELSE LET r == Directive(cur, Split(t.s))
                   IN  IF r.err # None
                       THEN /\ ppc' = "raised"
                            /\ perr' = r.err
                            /\ UNCHANGED <<cur, doc, ret>>
                       ELSE /\ cur' = r.inst
                            /\ UNCHANGED <<ppc, perr, doc, ret>>
    /\ UNCHANGED <<hdr, rb, bstart>>

\* a builder's for loop finds the iterator exhausted: EOF ends the block
BuildEOF ==
    /\ UNCHANGED postvars
    /\ ppc = "build"
    /\ Exhausted
    /\ doc' = Add(doc, Result(cur))
    /\ ppc' = "top"
    /\ cur' = NoInst
    /\ ret' = [how |-> "EOF", start |-> bstart, end |-> depth, kind |-> cur.kind]
    /\ UNCHANGED <<tokvars, perr, hdr, rb, depth, bstart>>

\* read_block lines 48-56 with `break` taken at any DEDENT
ReadStepAnyDedent(r, t) ==
    LET lev1 == IF t = INDENT THEN r.lev + 1 ELSE r.lev
        lev2 == IF t = DEDENT THEN lev1 - 1 ELSE lev1
        brk == t = DEDENT
    IN  [r EXCEPT !.lev = lev2, !.n = @ + 1,
                  !.cbn = IF ~brk /\ r.cb THEN @ + 1 ELSE @,
                  !.how = IF brk THEN "break" ELSE @]

\* read_block lines 48-56: one iteration of `for t in tok`
ReadStep(r, t) ==
    LET lev1 == IF t = INDENT THEN r.lev + 1 ELSE r.lev
        lev2 == IF t = DEDENT THEN lev1 - 1 ELSE lev1
        brk == t = DEDENT /\ lev2 = 0
    IN  [r EXCEPT !.lev = lev2, !.n = @ + 1,
                  !.cbn = IF ~brk /\ r.cb THEN @ + 1 ELSE @,
                  !.how = IF brk THEN "break" ELSE @]

ReadToken ==
    /\ UNCHANGED postvars
    /\ ppc = "read_block"
    /\ out # <<>>
    /\ LET t == Head(out)
       IN  /\ Take(t)
           /\ rb' = [ReadStep(rb, t) EXCEPT
                        !.closedAt = IF @ = 0 /\ t = DEDENT /\ depth' = rb.target
                                     THEN rb.n + 1 ELSE @]
           /\ ppc' = IF rb'.how = "break" THEN rb.caller ELSE ppc
    /\ UNCHANGED <<perr, hdr, cur, doc, bstart, ret>>

\* read_block's for loop finds the iterator exhausted
ReadEOF ==
    /\ UNCHANGED postvars
    /\ ppc = "read_block"
    /\ Exhausted
    /\ rb' = [rb EXCEPT !.how = "EOF"]
    /\ ppc' = rb.caller
    /\ UNCHANGED <<tokvars, perr, hdr, cur, doc, depth, bstart, ret>>

\* tokenize raised: the exception passes through whoever called next(tok)
Propagate ==
    /\ UNCHANGED postvars
    /\ Running
    /\ out = <<>>
    /\ tpc = "raised"
    /\ ppc' = "raised"
    /\ perr' = terr
    /\ UNCHANGED <<tokvars, hdr, cur, doc, rb, depth, bstart, ret>>

\* the generator runs when its consumer asks for a token and none is pending
Feed(L) ==
    Running /\ out = <<>> /\ (\E l \in L : TokStep(l)) /\ UNCHANGED <<parsevars, postvars>>
FeedFinish == Running /\ out = <<>> /\ TokFinish /\ UNCHANGED <<parsevars, postvars>>
FeedCut == Running /\ out = <<>> /\ TokCut /\ UNCHANGED <<parsevars, postvars>>

\* ---------------------------------------------- specification: read_block
\* A caller iterates over tokenize's tokens and hands the iterator to
\* read_block either right after an INDENT or right before one.
MaxBlockLines == 5
MaxBlockDepth == 2
BlockLines == {Repeat(TAB, d) \o <<"x">> : d \in 0..MaxBlockDepth}

BlockInit ==
    /\ TokInit
    /\ tabs = DefaultTabs
    /\ ppc = "scan"
    /\ perr = None
    /\ hdr = <<>>
    /\ cur = NoInst
    /\ doc = NewTimeline
    /\ rb = NoRb
    /\ depth = 0
    /\ bstart = 0
    /\ ret = NoRet
    /\ PostIdle

\* the caller takes a token itself
ScanToken ==
    /\ UNCHANGED postvars
    /\ ppc = "scan"
    /\ out # <<>>
    /\ Take(Head(out))
    /\ UNCHANGED parsevars_but_depth

\* the caller took an INDENT and calls read_block on what follows it
ScanCallAfter ==
    /\ UNCHANGED postvars
    /\ ppc = "scan"
    /\ out # <<>>
    /\ Head(out) = INDENT
    /\ Take(Head(out))
    /\ \E cb \in BOOLEAN : rb' = EnterReadBlock("rbdone", "after", cb, depth)
    /\ ppc' = "read_block"
    /\ UNCHANGED <<perr, hdr, cur, doc, bstart, ret>>

\* the caller calls read_block when the next token is an INDENT
ScanCallBefore ==
    /\ UNCHANGED postvars
    /\ ppc = "scan"
    /\ out # <<>>
    /\ Head(out) = INDENT
    /\ \E cb \in BOOLEAN : rb' = EnterReadBlock("rbdone", "before", cb, depth)
    /\ ppc' = "read_block"
    /\ UNCHANGED <<tokvars, perr, hdr, cur, doc, depth, bstart, ret>>

BlockNext ==
    \/ nlines < MaxBlockLines /\ Feed(BlockLines)
    \/ FeedFinish
    \/ ScanToken
    \/ ScanCallAfter
    \/ ScanCallBefore
    \/ ReadToken
    \/ ReadEOF
    \/ Propagate

SpecBlock == BlockInit /\ [][BlockNext]_vars

\* ------------------------------------------- specification: parse pipeline
\* Timeline.from_tokens(osp.tokenize(lines)) with the lines read on demand.
MaxParseLines == 4
MaxParseDepth == 2
ParseTexts ==
    { <<"char", SP, "A">>, <<"event", SP, "E">>, <<"constraint", SP, "C">>,
      <<"sequence", SP, "S">>, <<"group", SP, "G">>, <<"comment">>, <<"bogus">>,
      <<"begin", SP, "1">>, <<"end", SP, "5">>, <<"begin">>, <<"at", SP, "5">>,
      <<"event", SP, "A">>, <<>> }
ParseLines == {Repeat(TAB, d) \o t : d \in 0..MaxParseDepth, t \in ParseTexts}

ParseInit ==
    /\ TokInit
    /\ tabs = DefaultTabs
    /\ ppc = "top"
    /\ perr = None
    /\ hdr = <<>>
    /\ cur = NoInst
    /\ doc = NewTimeline
    /\ rb = NoRb
    /\ depth = 0
    /\ bstart = 0
    /\ ret = NoRet
    /\ PostIdle

ParseNext ==
    \/ nlines < MaxParseLines /\ Feed(ParseLines)
    \/ FeedFinish
    \/ FeedCut
    \/ TopToken
    \/ TopEOF
    \/ HdrNext
    \/ HdrEOF
    \/ BuildToken
    \/ BuildEOF
    \/ ReadToken
    \/ ReadEOF
    \/ Propagate

SpecParse == ParseInit /\ [][ParseNext]_vars

\* ------------------------------------- specification: one Character block
\* The dispatcher on a `char A` header followed by begin/end directives in any
\* order, closed by DEDENT (tokenize) or by the end of a cut token stream.
MaxSpanLines == 5
SpanTexts == { <<"begin", SP, "10">>, <<"end", SP, "20">>, <<"begin", SP, "1">>,
               <<"end", SP, "5">>, <<"begin", SP, "5">> }
SpanLines == {<<"char", SP, "A">>} \cup {<<TAB>> \o t : t \in SpanTexts}

SpanInit == ParseInit
SpanNext ==
    \/ nlines < MaxSpanLines /\ Feed(SpanLines)
    \/ FeedFinish
    \/ FeedCut
    \/ TopToken
    \/ TopEOF
    \/ HdrNext
    \/ HdrEOF
    \/ BuildToken
    \/ BuildEOF
SpecSpans == SpanInit /\ [][SpanNext]_vars

\* ------------------------------------------------ after parsing: link, check
\* A block is its header's words followed by the words of each body line;
\* BuildBlock is what the dispatcher adds for it.
RECURSIVE RunDirectives(_, _)
RunDirectives(inst, body) ==
    IF body = <<>> THEN inst
    ELSE RunDirectives(Directive(inst, Head(body)).inst, Tail(body))

BuildBlock(b) == Result(RunDirectives(NewInst(b[1][1], b[1]), Tail(b)))

RECURSIVE ParseBlocks(_)
ParseBlocks(bs) == IF bs = <<>> THEN NewTimeline
                   ELSE Add(ParseBlocks(Front(bs)), BuildBlock(Last(bs)))

PostInit(docs) ==
    /\ TokOff
    /\ ppc = "done"
    /\ perr = None
    /\ hdr = <<>>
    /\ cur = NoInst
    /\ doc \in docs
    /\ rb = NoRb
    /\ depth = 0
    /\ bstart = 0
    /\ ret = NoRet
    /\ phase = "parsed"
    /\ xerr = None
    /\ nlinks = 0
    /\ parsed = doc
    /\ linked1 = NewTimeline
    /\ todo = EmptyBag
    /\ good = TRUE
    /\ last = NoLast

\* tml.link()
DoLink ==
    /\ phase \in {"parsed", "linked"}
    /\ LET r == Link(doc)
       IN  /\ doc' = r.inst
           /\ IF r.err = None
              THEN /\ phase' = "linked"
                   /\ nlinks' = nlinks + 1
                   /\ linked1' = IF nlinks = 0 THEN r.inst ELSE linked1
                   /\ UNCHANGED xerr
              ELSE /\ phase' = "raised"
                   /\ xerr' = r.err
                   /\ UNCHANGED <<nlinks, linked1>>
    /\ UNCHANGED <<tokvars, ppc, perr, hdr, cur, rb, depth, bstart, ret,
                   parsed, todo, good, last>>

\* Timeline.check lines 181-182: good = True, the for loop starts
CheckStart ==
    /\ phase = "linked"
    /\ phase' = "checking"
    /\ todo' = doc.constraints
    /\ good' = TRUE
    /\ UNCHANGED <<tokvars, parsevars, xerr, nlinks, parsed, linked1, last>>

\* Timeline.check lines 182-188: the loop body on the next constraint of the set
CheckStep ==
    /\ phase = "checking"
    /\ \E con \in BagToSet(todo) :
         LET v == Verify(con, doc) IN
         /\ todo' = todo (-) SetToBag({con})
         /\ IF ~ConstraintIsValid(con)
            THEN /\ last' = [con |-> con, valid |-> FALSE, result |-> FALSE, err |-> None]
                 /\ UNCHANGED <<good, phase, xerr>>
            ELSE IF v.err # None
            THEN /\ last' = [con |-> con, valid |-> TRUE, result |-> FALSE, err |-> v.err]
                 /\ phase' = "raised"
                 /\ xerr' = v.err
                 /\ UNCHANGED good
            ELSE /\ last' = [con |-> con, valid |-> TRUE, result |-> v.result, err |-> None]
                 /\ good' = (good /\ v.result)
                 /\ UNCHANGED <<phase, xerr>>
    /\ UNCHANGED <<tokvars, parsevars, nlinks, parsed, linked1>>

\* Timeline.check lines 189-190: the loop is over
CheckEnd ==
    /\ phase = "checking"
    /\ todo = EmptyBag
    /\ phase' = "checked"
    /\ UNCHANGED <<tokvars, parsevars, xerr, nlinks, parsed, linked1, todo, good, last>>

\* -------------------------------------- specification: one sequence block
\* The dispatcher on the tokens of one `sequence S` block: the header, INDENT,
\* the lines of the body and, unless the stream is cut, DEDENT.  `last` keeps
\* the stream and `parsed` the document the block is added to.
MaxSeqEvents == 3
SeqTexts == { <<"event", SP, "a">>, <<"event", SP, "b", SP, "0", SP, "end">>,
              <<"event", SP, "c">>, <<"note", SP, "x">> }
SeqBodies == SeqsUpTo({Str(t) : t \in SeqTexts}, MaxSeqEvents)
SeqStreams ==
    {<<Str(<<"sequence", SP, "S">>), INDENT>> \o b \o e :
        b \in SeqBodies, e \in {<<>>, <<DEDENT>>}}
SeqDocs ==
    {NewTimeline,
     ParseBlocks(<< << <<"constraint", "S_0">>, <<"before", "a">>, <<"after", "c">> >> >>)}

SeqInit ==
    /\ tabs = DefaultTabs
    /\ lev_stack = <<0>>
    /\ only_tabbed = TRUE
    /\ tpc = "done"
    /\ terr = None
    /\ line = <<>>
    /\ lev = -1
    /\ out \in SeqStreams
    /\ nlines = 0
    /\ nIndent = 0
    /\ nDedent = 0
    /\ sawSpace = FALSE
    /\ cut = FALSE
    /\ ppc = "top"
    /\ perr = None
    /\ hdr = <<>>
    /\ cur = NoInst
    /\ doc \in SeqDocs
    /\ rb = NoRb
    /\ depth = 0
    /\ bstart = 0
    /\ ret = NoRet
    /\ phase = "idle"
    /\ xerr = None
    /\ nlinks = 0
    /\ parsed = doc
    /\ linked1 = NewTimeline
    /\ todo = EmptyBag
    /\ good = TRUE
    /\ last = [stream |-> out]
SeqNext ==
    \/ TopToken
    \/ TopEOF
    \/ HdrNext
    \/ BuildToken
    \/ BuildEOF
SpecSeq == SeqInit /\ [][SeqNext]_vars

\* ------------------------------- specification: the spans of one Character
\* The dispatcher on the tokens of one `char A` block: the header, INDENT, the
\* begin and end words of the body in any order and, unless the stream is
\* cut, DEDENT.  `last` keeps the stream.
MaxCharLines == 4
CharTexts == { <<"begin", SP, "1">>, <<"end", SP, "5">>, <<"begin", SP, "10">>,
               <<"end", SP, "20">>, <<"born", SP, "0">> }
CharBodies == SeqsUpTo({Str(t) : t \in CharTexts}, MaxCharLines)
CharStreams ==
    {<<Str(<<"char", SP, "A">>), INDENT>> \o b \o e :
        b \in CharBodies, e \in {<<>>, <<DEDENT>>}}

CharInit ==
    /\ tabs = DefaultTabs
    /\ lev_stack = <<0>>
    /\ only_tabbed = TRUE
    /\ tpc = "done"
    /\ terr = None
    /\ line = <<>>
    /\ lev = -1
    /\ out \in CharStreams
    /\ nlines = 0
    /\ nIndent = 0
    /\ nDedent = 0
    /\ sawSpace = FALSE
    /\ cut = FALSE
    /\ ppc = "top"
    /\ perr = None
    /\ hdr = <<>>
    /\ cur = NoInst
    /\ doc = NewTimeline
    /\ rb = NoRb
    /\ depth = 0
    /\ bstart = 0
    /\ ret = NoRet
    /\ phase = "idle"
    /\ xerr = None
    /\ nlinks = 0
    /\ parsed = NewTimeline
    /\ linked1 = NewTimeline
    /\ todo = EmptyBag
    /\ good = TRUE
    /\ last = [stream |-> out]
CharNext ==
    \/ TopToken
    \/ TopEOF
    \/ HdrNext
    \/ BuildToken
    \/ BuildEOF
SpecChar == CharInit /\ [][CharNext]_vars

\* ---------------------------------------------------- specification: link
MaxLinks == 2
MaxLinkBlocks == 3
LinkBlocks ==
    { << <<"char", "A">>, <<"begin", "1">>, <<"end", "5">> >>,
      << <<"char", "A">>, <<"begin", "0">>, <<"end", "20">> >>,
      << <<"char", "B">>, <<"parent", "A">>, <<"begin", "5">>, <<"end", "10">> >>,
      << <<"char", "B">>, <<"ambient">> >>,
      << <<"char", "C">>, <<"parent", "A", "B">>, <<"begin", "10">>, <<"end", "20">> >>,
      << <<"char", "D">>, <<"parent", "Z">>, <<"begin", "1">>, <<"end", "5">> >>,
      << <<"event", "E">>, <<"at", "5">>, <<"with", "A">> >>,
      << <<"event", "F">>, <<"at", "1">> >>,
      << <<"event", "G">> >>,
      << <<"event", "H">>, <<"at", "5">>, <<"from", "B">>, <<"with", "A", "B">> >>,
      << <<"event">>, <<"at", "10">>, <<"with", "Z">> >> }
LinkDocs == {ParseBlocks(bs) : bs \in SeqsUpTo(LinkBlocks, MaxLinkBlocks)}

LinkInit == PostInit(LinkDocs)
LinkNext == nlinks < MaxLinks /\ DoLink
SpecLink == LinkInit /\ [][LinkNext]_vars

\* --------------------------------------------------- specification: check
MaxCheckBlocks == 3
CheckBlocks ==
    { << <<"char", "A">>, <<"begin", "0">>, <<"end", "10">> >>,
      << <<"char", "B">>, <<"begin", "10">>, <<"end", "20">> >>,
      << <<"char", "N">> >>,
      << <<"group", "G">>, <<"event", "A">>, <<"event", "B", "0", "end">> >>,
      << <<"group", "H">>, <<"event", "Z">> >>,
      << <<"constraint", "X">>, <<"before", "A", "0", "end">>,
         <<"after", "B", "0", "start">> >>,
      << <<"constraint", "X">>, <<"before", "A", "0", "end">>,
         <<"after", "B", "0", "start">>, <<"strict">> >>,
      << <<"constraint", "Y">>, <<"before", "B">>, <<"after", "A">> >>,
      << <<"constraint", "Y">>, <<"before", "B">>, <<"after", "A">>, <<"offset", "10">> >>,
      << <<"constraint", "V">>, <<"before", "A">> >>,
      << <<"constraint", "W">>, <<"before", "N">>, <<"after", "A">> >>,
      << <<"constraint", "U">>, <<"before", "A", "5", "end">>, <<"after", "B">> >>,
      << <<"constraint", "T">>, <<"before", "H">>, <<"after", "H">> >>,
      << <<"constraint", "S">>, <<"before", "Z">>, <<"after", "N">> >>,
      << <<"constraint", "R">>, <<"before", "G">>, <<"after", "B", "0", "end">> >> }
CheckDocs == {ParseBlocks(bs) : bs \in SeqsUpTo(CheckBlocks, MaxCheckBlocks)}

CheckInit == PostInit(CheckDocs)
CheckNext ==
    \/ nlinks = 0 /\ DoLink
    \/ CheckStart
    \/ CheckStep
    \/ CheckEnd
SpecCheck == CheckInit /\ [][CheckNext]_vars

\* ------------------------------------------------- specification: tokenize
TokNext ==
    \/ nlines < MaxLines /\ (\E l \in TokLines : TokStep(l))
       /\ UNCHANGED <<parsevars, postvars>>
    \/ TokFinish /\ UNCHANGED <<parsevars, postvars>>

TokOnlyInit == TokInit /\ ParseIdle /\ PostIdle

SpecTok == TokOnlyInit /\ [][TokNext]_vars

\* ------------------------------------------------------------- claims: parsing
\* C7: on the tokens of a tokenize run, Timeline.from_tokens raises only
\* when tokenize itself raised; a recognized header that no INDENT follows,
\* the last token of the stream included, does not make it raise.
C7_ParsingNeverAborts ==
    (ppc = "raised" /\ ~cut) => (tpc = "raised" /\ perr = terr)

\* C9: a builder that returns at a DEDENT returns at the DEDENT that matches
\* the INDENT which opened its block: the depth it leaves is one less than
\* the depth right after that INDENT.
C9_BuilderEndsAtOwnDedent ==
    ret.how = "DEDENT" => ret.end = ret.start - 1

\* ---------------------------------------------------------- claims: read_block
\* C10 as stated: read_block entered right after the INDENT that opens a block
\* returns having consumed the tokens up to and including the DEDENT that
\* matches it and none beyond, the callback having got the tokens before it.
C10_AfterIndent ==
    (ppc = "rbdone" /\ rb.mode = "after") =>
        /\ rb.closedAt = rb.n
        /\ rb.n > 0
        /\ rb.cbn = IF rb.cb THEN rb.n - 1 ELSE 0

\* C10 amended: read_block entered when the next token is the INDENT that
\* opens a block returns at the DEDENT that matches it, having consumed the
\* tokens up to and including it and none beyond; the callback, when given,
\* got every token consumed before that DEDENT, the INDENT included.
C10_BeforeIndent ==
    (ppc = "rbdone" /\ rb.mode = "before") =>
        /\ rb.how = "break"
        /\ rb.closedAt = rb.n
        /\ depth = rb.target
        /\ rb.cbn = IF rb.cb THEN rb.n - 1 ELSE 0

C10_Witness ==
    /\ ppc = "rbdone" /\ rb.mode = "before" /\ rb.cb
    /\ rb.n = 6 /\ rb.cbn = 5 /\ out = <<Str(<<"x">>)>>

\* ------------------------------------------------------------ claims: tokenize
\* the entries of a stack that `pop while top > lv` leaves
NotAbove(st, lv) == SelectSeq(st, LAMBDA x : x <= lv)

\* C1: when tokenize has run to completion, as many INDENT as DEDENT tokens
\* were yielded, the level stack is back to [0], and the last step yielded
\* DEDENT tokens only.
C1_Balanced ==
    tpc = "done" =>
        /\ nIndent = nDedent
        /\ lev_stack = <<0>>
        /\ \A i \in 1..Len(out) : out[i] = DEDENT

C1_Witness == tpc = "done" /\ nIndent = 3 /\ Len(out) = 2

\* C2: a line whose level is below the top of the stack and, once every
\* greater entry is popped, above the new top makes tokenize raise: no
\* content token is yielded for that line, and nothing is yielded afterwards.
C2_DedentToAbsentLevelRaises ==
    [][/\ (/\ tpc = "run" /\ nlines' = nlines + 1 /\ lev' >= 0
           /\ lev' < Last(lev_stack)
           /\ Last(NotAbove(lev_stack, lev')) < lev')
          => (tpc' = "raised" /\ terr' = "ValueError" /\ ~HasContent(out'))
       /\ tpc = "raised" => (nlines' = nlines /\ nIndent' = nIndent
                             /\ nDedent' = nDedent /\ out' = out)]_vars

C2_Witness ==
    /\ tpc = "raised" /\ terr = "ValueError"
    /\ lev = 3 /\ lev_stack = <<0, 2>> /\ out = <<DEDENT>> /\ nIndent = 2

\* the levels tokenize computes for a list of lines
RECURSIVE Levels(_, _, _)
Levels(ls, ot, tb) ==
    IF ls = <<>> THEN <<>>
    ELSE LET r == LevelOf(Head(ls), ot, tb)
         IN  <<r.lev>> \o Levels(Tail(ls), r.only_tabbed, tb)

C3_Example == << <<TAB, "A">>, <<TAB, TAB, "B">>, <<SP, SP, "C">>, <<TAB, "D">> >>

\* C3: only_tabbed is true exactly as long as no line had a space in its
\* leading whitespace; the level of an indented line is spaces + tabs * w,
\* w = 1 while only_tabbed and the configured width afterwards; the four
\* example lines get levels 1, 2, 2, 4 with width 4.
C3_TabLatch ==
    /\ only_tabbed = ~sawSpace
    /\ (nlines > 0 /\ lev >= 0 /\ LWSmatch(line) # <<>>) =>
          lev = Count(LWSmatch(line), SP)
                + Count(LWSmatch(line), TAB) * (IF sawSpace THEN tabs ELSE 1)
    /\ Levels(C3_Example, TRUE, DefaultTabs) = <<1, 2, 2, 4>>

C3_Witness ==
    /\ tabs = DefaultTabs /\ nlines = 4 /\ tpc = "run" /\ ~only_tabbed
    /\ line = <<TAB, "A">> /\ lev = 4 /\ lev_stack = <<0, 1, 2, 4>>

\* -------------------------------------------------- specification: select
\* Constraint.select(sel, tml) on a linked document
DoSelect(sel) ==
    /\ phase = "linked"
    /\ last' = [sel |-> sel, res |-> Select(sel, doc, SelectFuel(doc))]
    /\ UNCHANGED <<tokvars, parsevars, phase, xerr, nlinks, parsed, linked1, todo, good>>

MaxSelectBlocks == 3
SelectBlocks ==
    { << <<"char", "R">>, <<"begin", "1">>, <<"end", "5">>, <<"begin", "10">>, <<"end", "20">> >>,
      << <<"char", "G">>, <<"begin", "0">>, <<"end", "10">> >>,
      << <<"event", "E3">>, <<"at", "3">> >>,
      << <<"event", "E7">>, <<"at", "7">> >>,
      << <<"event", "R">>, <<"at", "7">> >>,
      << <<"event", "U">> >>,
      << <<"event", "G">>, <<"at", "5">> >>,
      << <<"group", "G">>, <<"event", "E3">>, <<"event", "E7">> >>,
      << <<"group", "J">>, <<"event", "G">>, <<"event", "R", "-1", "end">>, <<"event", "Z">> >> }
SelectDocs == {ParseBlocks(bs) : bs \in SeqsUpTo(SelectBlocks, MaxSelectBlocks)}
SelectSels ==
    { <<"G">>, <<"J">>, <<"R">>, <<"R", "end">>, <<"R", "-1", "end">>, <<"R", "1", "start">>,
      <<"R", "0", "end">>, <<"G", "1", "end">>, <<"E3">>, <<"E">>, <<"U">>, <<"Z">> }

SelectInit == PostInit(SelectDocs)
SelectNext ==
    \/ nlinks = 0 /\ DoLink
    \/ \E sel \in SelectSels : DoSelect(sel)
SpecSelect == SelectInit /\ [][SelectNext]_vars

\* ------------------------------------------------------------------ C4
\* what the selectors of the constraint verified last resolve to
C4_Before == Select(Val(last.con.before), doc, SelectFuel(doc))
C4_After == Select(Val(last.con.after), doc, SelectFuel(doc))
C4_MaxB == SetMax({Val(t) : t \in C4_Before.times})
C4_MinA == SetMin({Val(t) : t \in C4_After.times})
C4_RangeA == << <<"char", "A">>, <<"begin", "0">>, <<"end", "10">> >>
C4_RangeB == << <<"char", "B">>, <<"begin", "10">>, <<"end", "20">> >>
C4_Touching == << <<"constraint", "X">>, <<"before", "A", "0", "end">>,
                  <<"after", "B", "0", "start">> >>
C4_Doc == Link(ParseBlocks(<<C4_RangeA, C4_RangeB>>)).inst

C8_CheckNeverRaises == nlinks = 1 => phase # "raised"

\* ------------------------------------------------------------------ C5
\* the constraint passes: it verifies without an error and the verdict is true
C5_Passes(con) == Verify(con, doc) = Verdict(TRUE, None)

\* C5: check visits every constraint of the bag, and when it is over its
\* overall result is true iff every constraint that has a before and an after
\* selector verified successfully; a failing constraint does not stop the
\* remaining ones from being evaluated.
C5_CheckVisitsAll ==
    (nlinks = 1 /\ phase \in {"checked", "raised"})
        => /\ todo = EmptyBag
           /\ good = (\A con \in BagToSet(doc.constraints) :
                          ConstraintIsValid(con) => C5_Passes(con))

\* ------------------------------------------------------------------ C6
\* every parent, from and with name of the document is a key of the ranges
C6_AllResolved(tml) ==
    /\ \A i \in 1..Len(tml.ranges) :
           \A r \in tml.ranges[i].parents : r.v \in RangeNames(tml)
    /\ \A i \in 1..Len(tml.events) :
           \A r \in tml.events[i].from_rg \cup tml.events[i].with_rg :
               r.v \in RangeNames(tml)

\* what C6 compares: each range's idx, the order of the events, the resolved
\* parents of each range and the resolved from_rg and with_rg of each event
C6_View(tml) ==
    [idx |-> [i \in 1..Len(tml.ranges) |-> tml.ranges[i].idx],
     order |-> [i \in 1..Len(tml.events) |-> <<tml.events[i].name, tml.events[i].time>>],
     parents |-> [i \in 1..Len(tml.ranges) |-> {r.v : r \in tml.ranges[i].parents}],
     from_rg |-> [i \in 1..Len(tml.events) |-> {r.v : r \in tml.events[i].from_rg}],
     with_rg |-> [i \in 1..Len(tml.events) |-> {r.v : r \in tml.events[i].with_rg}]]

\* C6: on a parsed document with no unresolved name, the state after linking
\* twice equals the state after linking once in each range's idx, the order of
\* the events, each Character's parents and each Event's from_rg and with_rg.
C6_LinkIdempotent ==
    (nlinks = 2 /\ phase = "linked" /\ C6_AllResolved(parsed))
        => C6_View(doc) = C6_View(linked1)

\* ------------------------------------------------------------------ C11
\* the token read_block is about to take is the header of a recognized block
\* at the level of the header that made the dispatcher call read_block
C11_TakesHeader ==
    /\ IsContent(Head(out))
    /\ Head(out).s # <<>>
    /\ Split(Head(out).s)[1] \in Handlers
    /\ depth <= rb.target

\* C11: on a `comment` header or a header of unknown kind the dispatcher
\* discards that header and its indented body and nothing else: the read_block
\* it calls never takes the header line of a recognized block that follows,
\* also when the comment or unknown header has no indented body.
C11_SkipsOnlyItsBlock ==
    [][(ppc = "read_block" /\ rb.caller = "top" /\ out # <<>> /\ out' = Tail(out))
           => ~C11_TakesHeader]_vars

\* ------------------------------------------------------------------ C12
\* the pairs <<C, P>> of a parsed document: C a range, P a parent name of C
\* that is a key of the ranges
C12_Pairs(tml) ==
    UNION {{<<tml.ranges[i].name, p.v>> :
                p \in {x \in tml.ranges[i].parents : x.v \in RangeNames(tml)}} :
             i \in 1..Len(tml.ranges)}

\* the two constraints the claim names for Character c and parent p
C12_Two(c, p) ==
    {[kind |-> "constraint", name |-> Some(c \o "_born_after_" \o p),
      before |-> Some(<<p>>), after |-> Some(<<c>>), offset |-> 0, strict |-> FALSE],
     [kind |-> "constraint", name |-> Some(c \o "_born_predeath_" \o p),
      before |-> Some(<<c>>), after |-> Some(<<p, "-1", "end">>),
      offset |-> 0, strict |-> FALSE]}

C12_Parent == << <<"char", "P">>, <<"begin", "0">>, <<"end", "10">>,
                 <<"begin", "20">>, <<"end", "50">> >>
C12_Child == << <<"char", "C">>, <<"parent", "P">>, <<"begin", "60">>, <<"end", "60">> >>
C12_Doc == Link(ParseBlocks(<<C12_Parent, C12_Child>>)).inst

\* C12: after one link the constraint bag holds, beyond what was parsed,
\* exactly two constraints for every Character C and every parent name of C
\* that resolves to a range P, both non-strict with offset 0: before = [P],
\* after = [C], and before = [C], after = [P, -1, end]; nothing is added for an
\* unresolved parent name or a range without parents.  With P's last span
\* ending at 50 and C's first span starting at 60 the first passes, the second
\* fails.
C12_TwoPerParent ==
    /\ (nlinks = 1 /\ phase = "linked")
          => doc.constraints =
               parsed.constraints
               (+) SetToBag(UNION {C12_Two(pr[1], pr[2]) : pr \in C12_Pairs(parsed)})
    /\ BagToSet(C12_Doc.constraints) = C12_Two("C", "P")
    /\ \A con \in C12_Two("C", "P") :
          Verify(con, C12_Doc) = Verdict(con.before = Some(<<"P">>), None)

\* linked once: a Character with one parent name that resolved and one that
\* did not, and the two constraints of the resolved one
C12_Witness ==
    /\ nlinks = 1
    /\ phase = "linked"
    /\ \E i \in 1..Len(parsed.ranges) :
          /\ parsed.ranges[i].parents = StrRefs(<<"A", "B">>)
          /\ RangeNames(parsed) = {"A", "C"}
    /\ BagToSet(doc.constraints) = C12_Two("C", "A")
    /\ BagCardinality(doc.constraints) = 2

\* ------------------------------------------------------------------ C13
\* what identifies a parsed event: linking changes neither field
C13_Id(ev) == <<ev.name, ev.time>>
C13_Ids(evs) == [i \in 1..Len(evs) |-> C13_Id(evs[i])]
C13_Timed(evs) == SelectSeq(evs, LAMBDA ev : ev.time # NoneV)
C13_At(evs, tm) == SelectSeq(evs, LAMBDA ev : ev.time = tm)

\* C13: after link the event sequence holds exactly the parsed events that have
\* a time, each once, in ascending order of time, events of equal time in
\* their order of insertion; the number of culled events is the number of
\* parsed events without a time.
C13_CulledAndSorted ==
    (nlinks = 1 /\ phase = "linked") =>
        /\ \A i \in 1..Len(doc.events) : doc.events[i].time # NoneV
        /\ \A i, j \in 1..Len(doc.events) :
               i < j => Val(doc.events[i].time) <= Val(doc.events[j].time)
        /\ \A tm \in {parsed.events[i].time : i \in 1..Len(parsed.events)} \ {NoneV} :
               C13_Ids(C13_At(doc.events, tm)) = C13_Ids(C13_At(parsed.events, tm))
        /\ Len(doc.events) = Len(C13_Timed(parsed.events))
        /\ Len(parsed.events) - Len(doc.events) =
               Cardinality({i \in 1..Len(parsed.events) : parsed.events[i].time = NoneV})

\* linked once: an event without a time was culled, a later event was moved
\* before two events of equal time, and those two kept their order
C13_Witness ==
    /\ nlinks = 1
    /\ phase = "linked"
    /\ C13_Ids(parsed.events) = <<<<Some("H"), Some(5)>>, <<Some("E"), Some(5)>>,
                                  <<Some("F"), Some(1)>>>>
    /\ C13_Ids(doc.events) = <<<<Some("F"), Some(1)>>, <<Some("H"), Some(5)>>,
                               <<Some("E"), Some(5)>>>>

\* linked once: the only event has no time, and was culled
C13_Culled ==
    /\ nlinks = 1
    /\ phase = "linked"
    /\ Len(parsed.events) = 1
    /\ doc.events = <<>>

\* ------------------------------------------------------------------ C14
C14_Names(tml) == [i \in 1..Len(tml.ranges) |-> tml.ranges[i].name]
C14_Idx(tml) == [i \in 1..Len(tml.ranges) |-> tml.ranges[i].idx]
C14_First == << <<"char", "A">>, <<"begin", "1">>, <<"end", "5">> >>
C14_Second == << <<"char", "B">>, <<"ambient">> >>
C14_Again == << <<"char", "A">>, <<"begin", "0">>, <<"end", "20">> >>
C14_Doc == ParseBlocks(<<C14_First, C14_Second, C14_Again>>)

\* C14: after link the idx values of the ranges are exactly 0 .. n-1, without
\* gap or repeat, in the order of insertion of the n range names, also when a
\* name was added more than once (the later range replaces the earlier one);
\* no range has an idx before linking.
C14_DenseIdx ==
    /\ (nlinks = 1 /\ phase = "linked") =>
          /\ C14_Idx(doc) = [i \in 1..Len(doc.ranges) |-> Some(i - 1)]
          /\ C14_Names(doc) = C14_Names(parsed)
          /\ \A i, j \in 1..Len(doc.ranges) :
                 doc.ranges[i].name = doc.ranges[j].name => i = j
          /\ \A i \in 1..Len(parsed.ranges) : parsed.ranges[i].idx = NoneV
    /\ C14_Names(C14_Doc) = <<"A", "B">>
    /\ C14_Doc.ranges[1] = BuildBlock(C14_Again)
    /\ C14_Idx(Link(C14_Doc).inst) = <<Some(0), Some(1)>>

\* linked once: three ranges numbered 0, 1, 2
C14_Witness ==
    /\ nlinks = 1
    /\ phase = "linked"
    /\ C14_Names(doc) = <<"B", "A", "C">>
    /\ C14_Idx(doc) = <<Some(0), Some(1), Some(2)>>
    /\ parsed.ranges[1].ambient

\* ------------------------------------------------------------------ C15
C15_Starts(rg) == [i \in 1..Len(rg.spans) |-> Val(rg.spans[i].start)]
C15_Ends(rg) == [i \in 1..Len(rg.spans) |-> Val(rg.spans[i].end)]

\* C15: every Character a builder returned has its spans in ascending order
\* of start, whatever the order of the begin/end pairs in the block, when the
\* block ended with DEDENT and when it ended with the end of the tokens.
C15_SpansSorted ==
    \A i \in 1..Len(doc.ranges) :
        \A j, k \in 1..Len(doc.ranges[i].spans) :
            j < k => C15_Starts(doc.ranges[i])[j] <= C15_Starts(doc.ranges[i])[k]

\* the block declared [10,20] and then [1,5], whose end was the last line
\* read, and ended with the token stream; the builder returned [1,5], [10,20]
C15_Witness ==
    /\ ret.how = "EOF"
    /\ ret.kind = "char"
    /\ nlines = 5
    /\ line = <<TAB, "end", SP, "5">>
    /\ Len(doc.ranges) = 1
    /\ C15_Starts(doc.ranges[1]) = <<1, 10>>
    /\ C15_Ends(doc.ranges[1]) = <<5, 20>>

\* ------------------------------------------------------------------ C16
\* a selector has been resolved, and its name is that of a group
C16_OnGroup == "sel" \in DOMAIN last /\ GroupsNamed(doc, last.sel[1]) # {}
\* what each member selector of that group resolves to
C16_Members ==
    {Select(m, doc, SelectFuel(doc)) :
        m \in doc.groups[CHOOSE i \in GroupsNamed(doc, last.sel[1]) : TRUE].evs}
C16_Doc ==
    Link(ParseBlocks(<< << <<"event", "E3">>, <<"at", "3">> >>,
                        << <<"event", "E7">>, <<"at", "7">> >>,
                        << <<"group", "G">>, <<"event", "E3">>, <<"event", "E7">> >> >>)).inst
C16_Example == Select(<<"G">>, C16_Doc, SelectFuel(C16_Doc))

\* C16: a selector whose name is that of a group resolves to the union of the
\* time sets of the group's member selectors that resolve (a member naming a
\* group being resolved in the same way), members that do not resolve being
\* skipped; a group of two event selectors with times 3 and 7 has min 3 and
\* max 7.
C16_GroupIsUnion ==
    /\ (C16_OnGroup /\ \A r \in C16_Members : r.k # "err")
          => last.res = GroupResult(UNION {r.times : r \in {x \in C16_Members : x.k = "res"}})
    /\ C16_Example.k = "res"
    /\ Extreme(C16_Example.times, FALSE) = [err |-> None, v |-> 3]
    /\ Extreme(C16_Example.times, TRUE) = [err |-> None, v |-> 7]

\* group J was resolved: its member G is the group of E3 (3) and E7 (absent),
\* its member [R, -1, end] and its member Z did not resolve
C16_Witness ==
    /\ C16_OnGroup
    /\ last.sel = <<"J">>
    /\ Len(doc.groups) = 2
    /\ Len(doc.events) = 1
    /\ last.res = GroupResult({Some(3)})

\* ------------------------------------------------------------------ C17
\* the span bounds and event times of a document, the absent times left out
C17_Times(tml) ==
    LET spans == UNION {SeqToSet(tml.ranges[i].spans) : i \in 1..Len(tml.ranges)}
        tms == {sp.start : sp \in spans} \cup {sp.end : sp \in spans}
               \cup {tml.events[i].time : i \in 1..Len(tml.events)}
    IN  {Val(o) : o \in tms \ {NoneV}}

\* C17: linking a parsed document that has at least one span or timed event
\* ends without error, and leaves every ambient range with the one span
\* [m, M], m and M the least and greatest span bound or event time of the
\* document as parsed, also when the document has an event without a time.
C17_AmbientBounds ==
    (phase \in {"linked", "raised"} /\ nlinks <= 1 /\ C17_Times(parsed) # {})
        => /\ phase = "linked"
           /\ \A i \in 1..Len(doc.ranges) :
                  doc.ranges[i].ambient =>
                      /\ Len(doc.ranges[i].spans) = 1
                      /\ doc.ranges[i].spans[1].start = Some(SetMin(C17_Times(parsed)))
                      /\ doc.ranges[i].spans[1].end = Some(SetMax(C17_Times(parsed)))

\* ------------------------------------------------------------------ C18
\* a selector has been resolved whose name is that of a range and of no group
C18_OnRange ==
    /\ "sel" \in DOMAIN last
    /\ GroupsNamed(doc, last.sel[1]) = {}
    /\ RangesNamed(doc, last.sel[1]) # {}
C18_Spans == doc.ranges[CHOOSE i \in RangesNamed(doc, last.sel[1]) : TRUE].spans
C18_Index == IF Len(last.sel) > 2 THEN NumVal[last.sel[2]] ELSE 0
C18_Property == IF Len(last.sel) > 1 THEN last.sel[Len(last.sel)] ELSE "start"
C18_Span == IF C18_Index = -1 THEN C18_Spans[Len(C18_Spans)] ELSE C18_Spans[C18_Index + 1]
C18_Doc ==
    Link(ParseBlocks(<< << <<"char", "R">>, <<"begin", "10">>, <<"end", "20">>,
                           <<"begin", "1">>, <<"end", "5">> >> >>)).inst
C18_Select(sel) == Select(sel, C18_Doc, SelectFuel(C18_Doc))

\* C18: a selector whose name is that of a range (and of no group) resolves to
\* the singleton holding one property of one span: the span of index 0, or of
\* the integer at position 1 when the selector has more than 2 tokens (-1 the
\* last span); the property start, or the last token (start or end) when the
\* selector has more than 1 token.  [R] is the first span's start, [R, end]
\* the first span's end, [R, -1, end] the last span's end.
C18_RangeSelector ==
    /\ ( /\ C18_OnRange
         /\ C18_Property \in {"start", "end"}
         /\ C18_Index \in -1 .. Len(C18_Spans) - 1
         /\ C18_Spans # <<>> )
       => last.res = GroupResult({IF C18_Property = "start" THEN C18_Span.start
                                  ELSE C18_Span.end})
    /\ C18_Select(<<"R">>) = GroupResult({Some(1)})
    /\ C18_Select(<<"R", "end">>) = GroupResult({Some(5)})
    /\ C18_Select(<<"R", "-1", "end">>) = GroupResult({Some(20)})

\* [R, 1, start] was resolved on the range R of spans [1,5] and [10,20]
C18_Witness ==
    /\ C18_OnRange
    /\ last.sel = <<"R", "1", "start">>
    /\ Len(C18_Spans) = 2
    /\ last.res = GroupResult({Some(10)})

\* ------------------------------------------------------------------ C19
\* the name of the selector resolved last is that of a group, range, event
C19_IsGroup == \E i \in 1..Len(doc.groups) : doc.groups[i].name = Some(last.sel[1])
C19_IsRange == \E i \in 1..Len(doc.ranges) : doc.ranges[i].name = last.sel[1]
C19_IsEvent == \E i \in 1..Len(doc.events) : doc.events[i].name = Some(last.sel[1])
\* the times of the members of the group of that name, resolved one by one
C19_GroupTimes ==
    UNION {Select(m, doc, SelectFuel(doc)).times :
             m \in UNION {doc.groups[i].evs :
                            i \in {j \in 1..Len(doc.groups) :
                                     doc.groups[j].name = Some(last.sel[1])}}}
\* the span bounds of the range of that name
C19_RangeTimes ==
    UNION {{sp.start, sp.end} :
             sp \in UNION {SeqToSet(doc.ranges[i].spans) :
                             i \in {j \in 1..Len(doc.ranges) :
                                      doc.ranges[j].name = last.sel[1]}}}
\* the times of the linked events of that name
C19_EventTimes ==
    {doc.events[i].time :
        i \in {j \in 1..Len(doc.events) : doc.events[j].name = Some(last.sel[1])}}

\* C19: a selector is tried against the groups, then the ranges, then the
\* events that survived linking (by exact name), and the first kind that has
\* the name decides: a group's name resolves as the group even when a range or
\* event has it too, a range's name as the range even when an event has it
\* too, and a name of none of the three gives no result.
C19_GroupsRangesEvents ==
    "sel" \in DOMAIN last =>
        IF C19_IsGroup
        THEN last.res.k = "err" \/ last.res = GroupResult(C19_GroupTimes)
        ELSE IF C19_IsRange
        THEN \/ last.res.k = "err"
             \/ /\ last.res.k = "res"
                /\ Cardinality(last.res.times) = 1
                /\ last.res.times \subseteq C19_RangeTimes
        ELSE IF C19_IsEvent
        THEN /\ last.res.k = "res"
             /\ Cardinality(last.res.times) = 1
             /\ last.res.times \subseteq C19_EventTimes
        ELSE last.res = NoResult

\* G is a group (of absent members), a range and an event, and [G] was resolved
C19_Witness ==
    /\ "sel" \in DOMAIN last
    /\ last.sel = <<"G">>
    /\ C19_IsGroup /\ C19_IsRange /\ C19_IsEvent
    /\ last.res = GroupResult({})

\* ------------------------------------------------------------------ C20
\* the selectors e_0 .. e_(n-1) of the `event` lines of the block, in order
C20_Events ==
    LET body == SelectSeq(last.stream,
                          LAMBDA t : IsContent(t) /\ Split(t.s)[1] = "event")
    IN  [i \in 1..Len(body) |-> Tail(Split(body[i].s))]
C20_Count == IF Len(C20_Events) > 0 THEN Len(C20_Events) - 1 ELSE 0
\* the i-th constraint of the claim, i from 0
C20_Constraint(i) ==
    [kind |-> "constraint", name |-> Some("S_" \o ToString(i)),
     before |-> Some(C20_Events[i + 1]), after |-> Some(C20_Events[i + 2]),
     offset |-> 0, strict |-> FALSE]
RECURSIVE C20_Bag(_)
C20_Bag(k) == IF k = 0 THEN EmptyBag
              ELSE C20_Bag(k - 1) (+) SetToBag({C20_Constraint(k - 1)})

\* C20: a sequence block named S with the event selectors e_0 .. e_(n-1) adds
\* exactly max(n-1, 0) constraints to the bag, one by one: the i-th is named
\* S_i and has before = e_i, after = e_(i+1), offset 0 and strict false.
C20_SequenceChain ==
    ret.kind = "sequence" =>
        /\ doc.constraints = parsed.constraints (+) C20_Bag(C20_Count)
        /\ BagCardinality(doc.constraints) = BagCardinality(parsed.constraints) + C20_Count

\* the block of events a, [b, 0, end], c was added to a document that already
\* had a constraint named S_0: the bag grew from one to three
C20_Witness ==
    /\ ret.kind = "sequence"
    /\ ret.how = "DEDENT"
    /\ C20_Events = << <<"a">>, <<"b", "0", "end">>, <<"c">> >>
    /\ BagCardinality(parsed.constraints) = 1
    /\ BagCardinality(doc.constraints) = 3
    /\ BagIn(C20_Constraint(1), doc.constraints)

\* ------------------------------------------------------------------ C21
\* C21: a line with an empty leading-whitespace run, a blank line included,
\* has level 0: when it arrives with k levels open above the base, exactly k
\* DEDENTs are yielded, then the line's content token (the empty string for a
\* blank line), and every open block is closed.
C21_UnindentedClosesAll ==
    [][(tpc = "run" /\ nlines' = nlines + 1 /\ LWSmatch(line') = <<>>)
          => /\ tpc' = "run"
             /\ lev' = 0
             /\ lev_stack' = <<0>>
             /\ out' = Repeat(DEDENT, Len(lev_stack) - 1) \o <<Str(RStrip(line'))>>
             /\ nDedent' = nDedent + Len(lev_stack) - 1
             /\ nIndent' = nIndent]_vars

\* a blank line arrived with two levels open: two DEDENTs, then the empty token
C21_Witness ==
    /\ tpc = "run"
    /\ nlines = 3
    /\ line = <<>>
    /\ nIndent = 2
    /\ nDedent = 2
    /\ lev_stack = <<0>>
    /\ out = <<DEDENT, DEDENT, Str(<<>>)>>

\* ------------------------------------------------------------------ C22
\* C22: as long as tokenize has not raised, the level stack is non-empty, its
\* bottom is 0, it is strictly increasing from bottom to top, and the INDENTs
\* yielded so far minus the DEDENTs yielded so far are the stack's length
\* minus 1; right after the content token of a line, the top of the stack is
\* that line's level.
C22_StackInvariant ==
    tpc # "raised" =>
        /\ lev_stack # <<>>
        /\ lev_stack[1] = 0
        /\ \A i, j \in 1..Len(lev_stack) : i < j => lev_stack[i] < lev_stack[j]
        /\ nIndent - nDedent = Len(lev_stack) - 1
        /\ nIndent >= nDedent
        /\ (tpc = "run" /\ nlines > 0) => (HasContent(out) /\ Last(lev_stack) = lev)

\* four lines of levels 1, 2, 1, 3: three INDENTs, one DEDENT, stack 0, 1, 3
C22_Witness ==
    /\ tpc = "run"
    /\ nlines = 4
    /\ lev_stack = <<0, 1, 3>>
    /\ lev = 3
    /\ nIndent = 3
    /\ nDedent = 1

\* ------------------------------------------------------------------ C23
\* the words of the body lines of the block, in order
C23_Body ==
    LET b == SelectSeq(Tail(last.stream), IsContent)
    IN  [i \in 1..Len(b) |-> Split(b[i].s)]
\* the <<start, end>> pairs the claim gives for the lines from the i-th on:
\* pending is <<>> or <<start>> of the begin that no end has closed
RECURSIVE C23_Pairs(_, _)
C23_Pairs(i, pending) ==
    IF i > Len(C23_Body) THEN <<>>
    ELSE IF C23_Body[i][1] \in {"begin", "born"}
    THEN C23_Pairs(i + 1, <<NumVal[C23_Body[i][2]]>>)
    ELSE IF pending = <<>> THEN C23_Pairs(i + 1, <<>>)
    ELSE <<<<pending[1], NumVal[C23_Body[i][2]]>>>> \o C23_Pairs(i + 1, <<>>)
C23_Stored == [i \in 1..Len(doc.ranges[1].spans) |->
                  <<doc.ranges[1].spans[i].start, doc.ranges[1].spans[i].end>>]
C23_Times(ps, p) == Cardinality({i \in 1..Len(ps) : ps[i] = p})

\* C23: every span of a parsed range has a start and an end; a span is stored
\* only when an end word closes a pending begin, an end word without a pending
\* begin stores nothing, a begin after a begin replaces it, and a begin still
\* pending when the block closes stores nothing: the spans are as many as the
\* end words that had an unclosed begin before them.
C23_SpansAreClosedPairs ==
    ret.kind = "char" =>
        /\ Len(doc.ranges) = 1
        /\ \A i \in 1..Len(C23_Stored) :
               C23_Stored[i][1] # NoneV /\ C23_Stored[i][2] # NoneV
        /\ Len(C23_Stored) = Len(C23_Pairs(1, <<>>))
        /\ \A i \in 1..Len(C23_Pairs(1, <<>>)) :
               LET p == C23_Pairs(1, <<>>)[i]
               IN  C23_Times(C23_Stored, <<Some(p[1]), Some(p[2])>>)
                     = C23_Times(C23_Pairs(1, <<>>), p)

\* end 5, begin 1, begin 10, end 20 and the end of the stream: the first end
\* had no begin, begin 1 was replaced, and the one span is [10, 20]
C23_Witness ==
    /\ ret.kind = "char"
    /\ C23_Body = << <<"end", "5">>, <<"begin", "1">>, <<"begin", "10">>, <<"end", "20">> >>
    /\ C23_Stored = << <<Some(10), Some(20)>> >>

====
